---- MODULE Spec2Model ----
(***************************************************************************)
(* Model of scripts/deployment-readiness-assessment.py: one run of main(), *)
(* stepping through the probes of the four assessors, the aggregation in   *)
(* run_assessment, generate_recommendations, save_report and the exit.     *)
(***************************************************************************)
EXTENDS Integers, Sequences, FiniteSets, TLC

(***************************************************************************)
(* Bounds of the model.                                                    *)
(***************************************************************************)
\* largest number of probe outcomes other than the successful one that the
\* environment produces in one run
MaxFaults == 2

(***************************************************************************)
(* Python float arithmetic (IEEE-754 binary64, round to nearest even).     *)
(* A non-negative float is [e, m]: m is the significand, most significant  *)
(* bit first, MantBits bits with m[1] = 1, and the value is                *)
(* 1.m[2]m[3]... * 2^e.  Zero is [e |-> 0, m |-> <<>>].                    *)
(***************************************************************************)
MantBits == 53

FZero == [e |-> 0, m |-> <<>>]

Pow2(n) == 2 ^ n

Min(a, b) == IF a <= b THEN a ELSE b

\* least s with b <= a * 2^s
RECURSIVE ShiftUp(_, _)
ShiftUp(a, b) == IF a >= b THEN 0 ELSE 1 + ShiftUp(2 * a, b)

\* the binary digits of bits * k for a small int k are produced, and the
\* quotient digits of a division are produced, LimbBits digits at a time
LimbBits == 18

\* the w low binary digits of a natural number, most significant first
FixedBits(n, w) == [i \in 1..w |-> (n \div Pow2(w - i)) % 2]

\* the first n bits of the fraction r / b (r < b < 2^13), most significant
\* first, and the remainder left after them
RECURSIVE FracBits(_, _, _)
FracBits(r, b, n) ==
    IF n = 0 THEN [bits |-> <<>>, rem |-> r]
    ELSE [bits |-> FixedBits((r * Pow2(Min(n, LimbBits))) \div b, Min(n, LimbBits))
                   \o FracBits((r * Pow2(Min(n, LimbBits))) % b, b,
                               n - Min(n, LimbBits)).bits,
          rem  |-> FracBits((r * Pow2(Min(n, LimbBits))) % b, b,
                            n - Min(n, LimbBits)).rem]

\* the number of binary digits of a natural number
BitLen(n) == IF n = 0 THEN 0 ELSE CHOOSE k \in 1..31 : Pow2(k - 1) <= n /\ n < 2 * Pow2(k - 1)

\* the binary digits of a natural number, most significant first
NatBits(n) == [i \in 1..BitLen(n) |-> (n \div Pow2(BitLen(n) - i)) % 2]

\* the natural number of the binary digits bits[lo..hi] (at most 30 of them)
RECURSIVE BitsVal(_, _, _)
BitsVal(bits, lo, hi) ==
    IF lo > hi THEN 0
    ELSE IF lo = hi THEN bits[lo]
         ELSE BitsVal(bits, lo, (lo + hi) \div 2) * Pow2(hi - (lo + hi) \div 2)
              + BitsVal(bits, (lo + hi) \div 2 + 1, hi)

\* bits + 1; one bit longer when every bit was 1
IncBits(bits) ==
    IF \A i \in 1..Len(bits) : bits[i] = 1
    THEN [i \in 1..(Len(bits) + 1) |-> IF i = 1 THEN 1 ELSE 0]
    ELSE [i \in 1..Len(bits) |->
            IF \E j \in (i + 1)..Len(bits) : bits[j] = 0 THEN bits[i]
            ELSE IF bits[i] = 0 THEN 1 ELSE 0]

\* the float of significand m and exponent e, rounded up when up holds
Rounded(m, e, up) ==
    IF ~up THEN [e |-> e, m |-> m]
    ELSE IF Len(IncBits(m)) > Len(m)
         THEN [e |-> e + 1, m |-> SubSeq(IncBits(m), 1, Len(m))]
         ELSE [e |-> e, m |-> IncBits(m)]

\* int / int, Python's true division: the float nearest to a / b
\* (round to nearest, ties to even)
FDiv(a, b) ==
    IF a = 0 THEN FZero
    ELSE LET s    == ShiftUp(a, b)
             ip   == (a * Pow2(s)) \div b
             r0   == (a * Pow2(s)) % b
             frac == FracBits(r0, b, MantBits - BitLen(ip))
             sig  == NatBits(ip) \o frac.bits
             left == frac.rem
             qup  == \/ 2 * left > b
                     \/ 2 * left = b /\ sig[MantBits] = 1
         IN Rounded(sig, BitLen(ip) - 1 - s, qup)

\* the binary digits of bits * k for a small int k, most significant first;
\* the significand is multiplied in three limbs of at most LimbBits bits
MulBits(bits, k) ==
    LET w   == LimbBits
        n   == Len(bits)
        p3  == BitsVal(bits, n - w + 1, n) * k
        p2  == BitsVal(bits, n - 2 * w + 1, n - w) * k + p3 \div Pow2(w)
        p1  == BitsVal(bits, 1, n - 2 * w) * k + p2 \div Pow2(w)
    IN NatBits(p1) \o FixedBits(p2 % Pow2(w), w) \o FixedBits(p3 % Pow2(w), w)

\* float * int for a small positive int k: the float nearest to x * k
FMulInt(x, k) ==
    IF x = FZero THEN FZero
    ELSE LET prod   == MulBits(x.m, k)
             extra  == Len(prod) - MantBits
             keep   == SubSeq(prod, 1, MantBits)
             guard  == extra >= 1 /\ prod[MantBits + 1] = 1
             sticky == \E i \in (MantBits + 2)..Len(prod) : prod[i] = 1
             rup    == guard /\ (sticky \/ keep[MantBits] = 1)
         IN Rounded(keep, x.e + extra, rup)

\* a >= b on significands of the same length
BitsGe(a, b) ==
    \/ a = b
    \/ \E i \in 1..Len(a) : a[i] > b[i] /\ \A j \in 1..(i - 1) : a[j] = b[j]

\* x >= y on non-negative floats
FGe(x, y) ==
    IF y = FZero THEN TRUE
    ELSE IF x = FZero THEN FALSE
         ELSE x.e > y.e \/ (x.e = y.e /\ BitsGe(x.m, y.m))

\* the float of an int (exact for the ints of this program)
FromInt(n) == FDiv(n, 1)

(***************************************************************************)
(* Python str operations used on issue strings.                            *)
(***************************************************************************)
LowerCase ==
    [A |-> "a", B |-> "b", C |-> "c", D |-> "d", E |-> "e", F |-> "f", G |-> "g",
     H |-> "h", I |-> "i", J |-> "j", K |-> "k", L |-> "l", M |-> "m", N |-> "n",
     O |-> "o", P |-> "p", Q |-> "q", R |-> "r", S |-> "s", T |-> "t", U |-> "u",
     V |-> "v", W |-> "w", X |-> "x", Y |-> "y", Z |-> "z"]

LowerChar(c) == IF c \in DOMAIN LowerCase THEN LowerCase[c] ELSE c

\* str.lower()
RECURSIVE Lower(_)
Lower(s) == IF Len(s) = 0 THEN "" ELSE LowerChar(Head(s)) \o Lower(Tail(s))

\* k in s
Contains(s, k) ==
    \E i \in 1..(Len(s) - Len(k) + 1) : SubSeq(s, i, i + Len(k) - 1) = k


Digits == <<"0", "1", "2", "3", "4", "5", "6", "7", "8", "9">>

\* str(n) of a natural number
RECURSIVE IntToStr(_)
IntToStr(n) ==
    IF n < 10 THEN Digits[n + 1]
    ELSE IntToStr(n \div 10) \o Digits[(n % 10) + 1]

\* f'{x:.2f}' of a duration of a whole number of milliseconds
Fmt2f(n) == IntToStr(n) \o ".00"

(***************************************************************************)
(* Configuration: load_config merges the optional user document into the   *)
(* defaults with dict.update, key by key at the top level.                 *)
(***************************************************************************)
DefaultThresholds ==
    [response_time_ms |-> 2000, memory_usage_mb |-> 2048,
     test_pass_rate |-> 95, query_time_ms |-> 1000]

DefaultConfig == [thresholds |-> DefaultThresholds]

\* the user documents considered: none, and one whose 'thresholds' names a
\* single threshold (update replaces the whole default 'thresholds' mapping)
UserConfigs ==
    { <<>>,
      [thresholds |-> [test_pass_rate |-> 90]] }

LoadConfig(user_config) == user_config @@ DefaultConfig

(***************************************************************************)
(* What the external collaborators can answer.                             *)
(***************************************************************************)
Exc(t, msg) == [type |-> t, msg |-> msg]

\* except clauses: which raised types a handler type catches
Catches(handler, t) ==
    \/ handler = "Exception"
    \/ handler = t

\* subprocess.run with a timeout= argument
TimedProcessOutcomes ==
    { [kind |-> "exit", returncode |-> 0],
      [kind |-> "exit", returncode |-> 1],
      [kind |-> "raise", exc |-> Exc("TimeoutExpired", "Command timed out")],
      [kind |-> "raise", exc |-> Exc("FileNotFoundError", "No such file or directory")] }

\* the calls on the MySQL connection and cursor: an Error may or may not
\* leave the connection to the server alive
DbRaises ==
    { [exc |-> Exc("Error", "Lost connection to MySQL server"), alive |-> FALSE],
      [exc |-> Exc("Error", "Table does not exist"), alive |-> TRUE],
      [exc |-> Exc("TypeError", "object is not subscriptable"), alive |-> TRUE] }

ConnectRaises ==
    { Exc("Error", "Can not connect to MySQL server"),
      Exc("TypeError", "argument after ** must be a mapping") }

\* cursor.close() in the finally clause, with the result of the last query
\* not fetched
CloseRaises == { Exc("InternalError", "Unread result found") }

DecimalColumnCounts == {0, 3}
RowCounts == {0, 12}
QueryTimes == {5, 1500}

\* requests.get / requests.post
HttpStatuses == {200, 503}
HttpRaises ==
    { Exc("RequestException", "Connection refused"),
      Exc("UnicodeError", "label empty or too long") }
ResponseBodies ==
    { "{\"cash\": \"150.25\"}",
      "{\"price\": \"150.25\"}",
      "{\"cash\": 15}",
      "{\"cash\": 1E+10}" }
ResponseTimes == {150, 2500}

\* pgrep, ps, df, uptime
MemoryKbs == {524288, 4194304}
UsagePercents == {42, 95}
OsRaises == { Exc("FileNotFoundError", "No such file or directory") }
ParseRaises == { Exc("ValueError", "invalid literal for int()") }

(***************************************************************************)
(* The result mapping of one assessor.                                     *)
(***************************************************************************)
NewResults == [score |-> 0, max_score |-> 100, details |-> <<>>, issues |-> <<>>]

\* results['details'][key] = value
SetDetail(res, key, value) == [res EXCEPT !.details = (key :> value) @@ @]

\* a probe whose success is counted twice
AwardTwice(res, points) == [res EXCEPT !.score = @ + points + points]

\* results['score'] += points
Award(res, points) == [res EXCEPT !.score = @ + points]

\* results['issues'].append(issue)
AddIssue(res, issue) == [res EXCEPT !.issues = Append(@, issue)]

HasKey(d, key) == key \in DOMAIN d

\* the probes of the four assessors, named by the detail key of their success
CodeQualityProbes == {"backend_tests", "test_coverage", "static_analysis", "security_scan"}
DatabaseProbes == {"connectivity", "bigdecimal_columns", "data_integrity", "query_performance"}
ApiProbes == {"health_check", "serialization", "decimal_format", "dcf_performance"}
SystemProbes == {"memory_usage", "disk_space", "system_load"}
AllProbes == CodeQualityProbes \cup DatabaseProbes \cup ApiProbes \cup SystemProbes

VARIABLES
    pc,               \* position of the run in main / run_assessment
    config,           \* self.config
    results,          \* the local 'results' of the assessor that is running
    categories,       \* self.results['categories'], in insertion order
    readiness_score,  \* self.results['readiness_score']
    overall_status,   \* self.results['overall_status']
    critical_issues,  \* self.results['critical_issues']
    warnings,         \* self.results['warnings']
    recommendations,  \* self.results['recommendations']
    conn,             \* the local 'connection' of assess_database_readiness
    cursor,           \* the local 'cursor' of assess_database_readiness
    report_saved,     \* whether save_report has written the report file
    exit_code,        \* the exit status of the process, -1 while it runs
    uncaught,         \* the exception that ended the process, or "none"
    attempted,        \* the probes whose check has been started
    faults            \* outcomes other than the successful one produced so far

vars == <<pc, config, results, categories, readiness_score, overall_status,
          critical_issues, warnings, recommendations, conn, cursor,
          report_saved, exit_code, uncaught, attempted, faults>>

runVars == <<readiness_score, overall_status, critical_issues, warnings,
             recommendations>>

Init ==
    /\ pc = "start"
    /\ config \in {LoadConfig(u) : u \in UserConfigs}
    /\ results = NewResults
    /\ categories = <<>>
    /\ readiness_score = FZero
    /\ overall_status = "UNKNOWN"
    /\ critical_issues = <<>>
    /\ warnings = <<>>
    /\ recommendations = <<>>
    /\ conn = "unbound"
    /\ cursor = "unbound"
    /\ report_saved = FALSE
    /\ exit_code = -1
    /\ uncaught = "none"
    /\ attempted = {}
    /\ faults = 0

\* the environment may produce an outcome that is not the successful one
\* only while fewer than MaxFaults of them have been produced
Fault(nominal) ==
    /\ nominal \/ faults < MaxFaults
    /\ faults' = IF nominal THEN faults ELSE faults + 1

\* an exception that no handler catches leaves main: the interpreter prints
\* the traceback and the process ends with status 1
Crash(t) ==
    /\ pc' = "exited"
    /\ uncaught' = t
    /\ exit_code' = 1

\* a call made without a timeout on a collaborator that never answers: the
\* call does not return and the run stays at it
NeverReturns(at) ==
    /\ Fault(FALSE)
    /\ pc' = at

\* 'return results' of an assessor and the assignment into the categories
Attach(name, res) == Append(categories, [name |-> name, result |-> res])

(***************************************************************************)
(* assess_code_quality: four build-tool processes.                         *)
(***************************************************************************)
Succeeded(out) == out.kind = "exit" /\ out.returncode = 0

\* the 'mvn test' probe: a handler for TimeoutExpired, then one for Exception
BackendTestsProbe(res, out) ==
    IF out.kind = "exit"
    THEN IF out.returncode = 0
         THEN Award(SetDetail(res, "backend_tests", "PASSED"), 30)
         ELSE AddIssue(SetDetail(res, "backend_tests", "FAILED"),
                       "Backend tests failing")
    ELSE IF Catches("TimeoutExpired", out.exc.type)
         THEN AddIssue(SetDetail(res, "backend_tests", "TIMEOUT"),
                       "Backend tests timed out")
         ELSE AddIssue(SetDetail(res, "backend_tests", "ERROR: " \o out.exc.msg),
                       "Backend test execution error: " \o out.exc.msg)

\* the shape of the three other probes: exit status 0 scores, another exit
\* status and any exception record an issue
ExitStatusProbe(res, out, key, okText, points, failText, failIssue, errPrefix) ==
    IF out.kind = "exit"
    THEN IF out.returncode = 0
         THEN Award(SetDetail(res, key, okText), points)
         ELSE AddIssue(SetDetail(res, key, failText), failIssue)
    ELSE AddIssue(SetDetail(res, key, "ERROR: " \o out.exc.msg),
                  errPrefix \o out.exc.msg)

CoverageProbe(res, out) ==
    ExitStatusProbe(res, out, "test_coverage", "GENERATED", 20, "FAILED",
                    "Test coverage report generation failed",
                    "Coverage report error: ")

StaticAnalysisProbe(res, out) ==
    ExitStatusProbe(res, out, "static_analysis", "PASSED", 25, "ISSUES_FOUND",
                    "Static analysis found issues",
                    "Static analysis error: ")

SecurityScanProbe(res, out) ==
    ExitStatusProbe(res, out, "security_scan", "PASSED", 25,
                    "VULNERABILITIES_FOUND",
                    "Security vulnerabilities detected",
                    "Security scan error: ")

\* main constructs the assessment and calls run_assessment, which enters
\* assess_code_quality
StartAssessment ==
    /\ pc = "start"
    /\ pc' = "cq_backend"
    /\ results' = NewResults
    /\ UNCHANGED <<config, categories, runVars, conn, cursor, report_saved,
                   exit_code, uncaught, attempted, faults>>

CqBackendTests ==
    /\ pc = "cq_backend"
    /\ \E out \in TimedProcessOutcomes :
          /\ Fault(Succeeded(out))
          /\ results' = BackendTestsProbe(results, out)
    /\ attempted' = attempted \cup {"backend_tests"}
    /\ pc' = "cq_coverage"
    /\ UNCHANGED <<config, categories, runVars, conn, cursor, report_saved,
                   exit_code, uncaught>>

CqCoverage ==
    /\ pc = "cq_coverage"
    /\ \E out \in TimedProcessOutcomes :
          /\ Fault(Succeeded(out))
          /\ results' = CoverageProbe(results, out)
    /\ attempted' = attempted \cup {"test_coverage"}
    /\ pc' = "cq_static"
    /\ UNCHANGED <<config, categories, runVars, conn, cursor, report_saved,
                   exit_code, uncaught>>

CqStaticAnalysis ==
    /\ pc = "cq_static"
    /\ \E out \in TimedProcessOutcomes :
          /\ Fault(Succeeded(out))
          /\ results' = StaticAnalysisProbe(results, out)
    /\ attempted' = attempted \cup {"static_analysis"}
    /\ pc' = "cq_security"
    /\ UNCHANGED <<config, categories, runVars, conn, cursor, report_saved,
                   exit_code, uncaught>>

\* the last probe, 'return results' and the entry of assess_database_readiness
CqSecurityScan ==
    /\ pc = "cq_security"
    /\ \E out \in TimedProcessOutcomes :
          /\ Fault(Succeeded(out))
          /\ categories' = Attach("code_quality", SecurityScanProbe(results, out))
    /\ results' = NewResults
    /\ attempted' = attempted \cup {"security_scan"}
    /\ pc' = "db_connect"
    /\ UNCHANGED <<config, runVars, conn, cursor, report_saved, exit_code,
                   uncaught>>

(***************************************************************************)
(* assess_database_readiness: one try block around the connection and the  *)
(* four checks, handlers for mysql.connector.Error and Exception, and a    *)
(* finally clause that closes the cursor and the connection.               *)
(***************************************************************************)
\* handlers whose issue text names no error
DatabaseHandlerUnreachable(res, exc) ==
    IF Catches("Error", exc.type)
    THEN AddIssue(SetDetail(res, "database_error", exc.msg),
                  "Database unreachable: " \o exc.msg)
    ELSE AddIssue(SetDetail(res, "unexpected_error", exc.msg),
                  "Database check interrupted: " \o exc.msg)

\* the two except clauses
DatabaseHandler(res, exc) ==
    IF Catches("Error", exc.type)
    THEN AddIssue(SetDetail(res, "database_error", exc.msg),
                  "Database connection error: " \o exc.msg)
    ELSE AddIssue(SetDetail(res, "unexpected_error", exc.msg),
                  "Unexpected database error: " \o exc.msg)

\* the connection after a call on it raised
AfterRaise(r) == IF r.alive THEN conn ELSE "lost"

\* cursor.execute("SELECT 1")
ConnectivityCheck(res) == Award(SetDetail(res, "connectivity", "OK"), 20)

\* the information_schema query; n is the number of 'decimal' columns
SchemaCheck(res, n) ==
    IF n > 0
    THEN Award(SetDetail(res, "bigdecimal_columns", IntToStr(n) \o " found"), 30)
    ELSE AddIssue(SetDetail(res, "bigdecimal_columns", "NOT_FOUND"),
                  "BigDecimal columns not implemented")

\* the two COUNT(*) queries
DataIntegrityCheck(res, input_count, output_count) ==
    IF input_count > 0 /\ output_count > 0
    THEN Award(SetDetail(res, "data_integrity",
                         "Inputs: " \o IntToStr(input_count)
                             \o ", Outputs: " \o IntToStr(output_count)), 25)
    ELSE AddIssue(SetDetail(res, "data_integrity", "NO_DATA"),
                  "No test data available")

\* the timed join query, against thresholds['query_time_ms']
QueryPerformanceCheck(res, query_time_ms, thresholds) ==
    IF ~HasKey(thresholds, "query_time_ms")
    THEN DatabaseHandler(res, Exc("KeyError", "'query_time_ms'"))
    ELSE IF query_time_ms < thresholds["query_time_ms"]
         THEN Award(SetDetail(res, "query_performance",
                              Fmt2f(query_time_ms) \o "ms"), 25)
         ELSE AddIssue(SetDetail(res, "query_performance",
                                 Fmt2f(query_time_ms) \o "ms (SLOW)"),
                       "Query performance below threshold: "
                           \o Fmt2f(query_time_ms) \o "ms")

\* mysql.connector.connect(...)
DbConnect ==
    /\ pc = "db_connect"
    /\ \/ /\ Fault(TRUE)
          /\ conn' = "connected"
          /\ pc' = "db_cursor"
          /\ UNCHANGED results
       \/ \E exc \in ConnectRaises :
             /\ Fault(FALSE)
             /\ results' = DatabaseHandler(results, exc)
             /\ pc' = "db_finally"
             /\ UNCHANGED conn
    /\ attempted' = attempted \cup {"connectivity"}
    /\ UNCHANGED <<config, categories, runVars, cursor, report_saved,
                   exit_code, uncaught>>

\* connection.cursor()
DbCursor ==
    /\ pc = "db_cursor"
    /\ \/ /\ Fault(TRUE)
          /\ cursor' = "open"
          /\ pc' = "db_select1"
          /\ UNCHANGED <<results, conn>>
       \/ \E r \in DbRaises :
             /\ Fault(FALSE)
             /\ results' = DatabaseHandler(results, r.exc)
             /\ conn' = AfterRaise(r)
             /\ pc' = "db_finally"
             /\ UNCHANGED cursor
    /\ UNCHANGED <<config, categories, runVars, report_saved, exit_code,
                   uncaught, attempted>>

\* cursor.execute("SELECT 1") and the connectivity outcome
DbConnectivity ==
    /\ pc = "db_select1"
    /\ \/ /\ Fault(TRUE)
          /\ results' = ConnectivityCheck(results)
          /\ pc' = "db_schema"
          /\ UNCHANGED conn
       \/ \E r \in DbRaises :
             /\ Fault(FALSE)
             /\ results' = DatabaseHandler(results, r.exc)
             /\ conn' = AfterRaise(r)
             /\ pc' = "db_finally"
       \/ /\ NeverReturns("db_blocked")
          /\ UNCHANGED <<results, conn>>
    /\ UNCHANGED <<config, categories, runVars, cursor, report_saved,
                   exit_code, uncaught, attempted>>

\* the schema query, fetchall and the decimal-column outcome
DbSchema ==
    /\ pc = "db_schema"
    /\ \/ \E n \in DecimalColumnCounts :
             /\ Fault(n > 0)
             /\ results' = SchemaCheck(results, n)
             /\ pc' = "db_counts"
             /\ UNCHANGED conn
       \/ \E r \in DbRaises :
             /\ Fault(FALSE)
             /\ results' = DatabaseHandler(results, r.exc)
             /\ conn' = AfterRaise(r)
             /\ pc' = "db_finally"
       \/ /\ NeverReturns("db_blocked")
          /\ UNCHANGED <<results, conn>>
    /\ attempted' = attempted \cup {"bigdecimal_columns"}
    /\ UNCHANGED <<config, categories, runVars, cursor, report_saved,
                   exit_code, uncaught>>

\* the two row counts and the data-integrity outcome
DbDataIntegrity ==
    /\ pc = "db_counts"
    /\ \/ \E i \in RowCounts, o \in RowCounts :
             /\ Fault(i > 0 /\ o > 0)
             /\ results' = DataIntegrityCheck(results, i, o)
             /\ pc' = "db_perf"
             /\ UNCHANGED conn
       \/ \E r \in DbRaises :
             /\ Fault(FALSE)
             /\ results' = DatabaseHandler(results, r.exc)
             /\ conn' = AfterRaise(r)
             /\ pc' = "db_finally"
       \/ /\ NeverReturns("db_blocked")
          /\ UNCHANGED <<results, conn>>
    /\ attempted' = attempted \cup {"data_integrity"}
    /\ UNCHANGED <<config, categories, runVars, cursor, report_saved,
                   exit_code, uncaught>>

\* the timed join query and the query-performance outcome
DbQueryPerformance ==
    /\ pc = "db_perf"
    /\ \/ \E t \in QueryTimes :
             /\ Fault(t = 5)
             /\ results' = QueryPerformanceCheck(results, t, config.thresholds)
             /\ pc' = "db_finally"
             /\ UNCHANGED conn
       \/ \E r \in DbRaises :
             /\ Fault(FALSE)
             /\ results' = DatabaseHandler(results, r.exc)
             /\ conn' = AfterRaise(r)
             /\ pc' = "db_finally"
       \/ /\ NeverReturns("db_blocked")
          /\ UNCHANGED <<results, conn>>
    /\ attempted' = attempted \cup {"query_performance"}
    /\ UNCHANGED <<config, categories, runVars, cursor, report_saved,
                   exit_code, uncaught>>

\* the finally clause: 'connection' in locals() and connection.is_connected(),
\* then cursor.close() and connection.close(); cursor.close() on a cursor
\* that was never bound raises UnboundLocalError out of the assessor, and a
\* cursor.close() that raises is followed by no connection.close(): the
\* clause has no handler of its own.
\* Otherwise 'return results' and the entry of assess_api_readiness.
DbFinally ==
    /\ pc = "db_finally"
    /\ IF conn = "connected" /\ cursor = "unbound"
       THEN /\ Crash("UnboundLocalError")
            /\ UNCHANGED <<results, categories, conn, cursor, faults>>
       ELSE \/ /\ Fault(TRUE)
               /\ conn' = IF conn = "connected" THEN "closed" ELSE conn
               /\ cursor' = IF conn = "connected" THEN "closed" ELSE cursor
               /\ categories' = Attach("database", results)
               /\ results' = NewResults
               /\ pc' = "api_health"
               /\ UNCHANGED <<exit_code, uncaught>>
            \/ \E exc \in CloseRaises :
                  /\ conn = "connected"
                  /\ Fault(FALSE)
                  /\ Crash(exc.type)
                  /\ UNCHANGED <<results, categories, conn, cursor>>
    /\ UNCHANGED <<config, runVars, report_saved, attempted>>

(***************************************************************************)
(* assess_api_readiness: three requests, each in a try block whose only    *)
(* handler is for requests.exceptions.RequestException.                    *)
(***************************************************************************)
RequestHandler(res, key, prefix, exc) ==
    AddIssue(SetDetail(res, key, "ERROR: " \o exc.msg), prefix \o exc.msg)

\* GET /actuator/health
HealthProbe(res, status_code) ==
    IF status_code = 200
    THEN Award(SetDetail(res, "health_check", "OK"), 25)
    ELSE AddIssue(SetDetail(res, "health_check", "HTTP " \o IntToStr(status_code)),
                  "Health check failed: " \o IntToStr(status_code))

\* 'e' in response_text.lower() or 'E' in response_text
HasScientificNotation(response_text) ==
    Contains(Lower(response_text), "e") \/ Contains(response_text, "E")

\* '"' in response_text and '.' in response_text
HasDecimalValues(response_text) ==
    Contains(response_text, "\"") /\ Contains(response_text, ".")

SerializationCheck(res, response_text) ==
    IF HasScientificNotation(response_text)
    THEN AddIssue(SetDetail(res, "serialization", "SCIENTIFIC_NOTATION_DETECTED"),
                  "API responses contain scientific notation")
    ELSE Award(SetDetail(res, "serialization", "OK"), 25)

DecimalFormatCheck(res, response_text) ==
    IF HasDecimalValues(response_text)
    THEN Award(SetDetail(res, "decimal_format", "OK"), 25)
    ELSE AddIssue(SetDetail(res, "decimal_format", "NO_DECIMALS"),
                  "API responses missing decimal values")

\* GET /api/financial-data/AAPL and the two checks of its body
FinancialProbe(res, status_code, response_text) ==
    IF status_code = 200
    THEN DecimalFormatCheck(SerializationCheck(res, response_text), response_text)
    ELSE AddIssue(SetDetail(res, "financial_endpoint",
                            "HTTP " \o IntToStr(status_code)),
                  "Financial data endpoint failed: " \o IntToStr(status_code))

\* POST /api/dcf/calculate on a 200 or another status; the threshold is read
\* only on a 200 (the caller handles its absence)
DcfProbe(res, status_code, response_time_ms, thresholds) ==
    IF status_code = 200
    THEN IF response_time_ms < thresholds["response_time_ms"]
         THEN Award(SetDetail(res, "dcf_performance",
                              Fmt2f(response_time_ms) \o "ms"), 25)
         ELSE AddIssue(SetDetail(res, "dcf_performance",
                                 Fmt2f(response_time_ms) \o "ms (SLOW)"),
                       "DCF calculation too slow: "
                           \o Fmt2f(response_time_ms) \o "ms")
    ELSE AddIssue(SetDetail(res, "dcf_endpoint", "HTTP " \o IntToStr(status_code)),
                  "DCF calculation failed: " \o IntToStr(status_code))

ApiHealth ==
    /\ pc = "api_health"
    /\ attempted' = attempted \cup {"health_check"}
    /\ UNCHANGED <<config, categories, runVars, conn, cursor, report_saved>>
    /\ \/ \E status_code \in HttpStatuses :
             /\ Fault(status_code = 200)
             /\ results' = HealthProbe(results, status_code)
             /\ pc' = "api_financial"
             /\ UNCHANGED <<exit_code, uncaught>>
       \/ \E exc \in HttpRaises :
             /\ Fault(FALSE)
             /\ IF Catches("RequestException", exc.type)
                THEN /\ results' = RequestHandler(results, "health_check",
                                                  "Health check error: ", exc)
                     /\ pc' = "api_financial"
                     /\ UNCHANGED <<exit_code, uncaught>>
                ELSE /\ Crash(exc.type)
                     /\ UNCHANGED results

ApiFinancialData ==
    /\ pc = "api_financial"
    /\ attempted' = attempted \cup {"serialization", "decimal_format"}
    /\ UNCHANGED <<config, categories, runVars, conn, cursor, report_saved>>
    /\ \/ \E status_code \in HttpStatuses, body \in ResponseBodies :
             /\ Fault(/\ status_code = 200
                      /\ ~HasScientificNotation(body)
                      /\ HasDecimalValues(body))
             /\ results' = FinancialProbe(results, status_code, body)
             /\ pc' = "api_dcf"
             /\ UNCHANGED <<exit_code, uncaught>>
       \/ \E exc \in HttpRaises :
             /\ Fault(FALSE)
             /\ IF Catches("RequestException", exc.type)
                THEN /\ results' = RequestHandler(results, "financial_endpoint",
                                                  "Financial endpoint error: ", exc)
                     /\ pc' = "api_dcf"
                     /\ UNCHANGED <<exit_code, uncaught>>
                ELSE /\ Crash(exc.type)
                     /\ UNCHANGED results

\* the last request, 'return results' and the entry of
\* assess_system_resources; a missing thresholds['response_time_ms'] raises
\* KeyError, which the RequestException handler does not catch
ApiDcfCalculation ==
    /\ pc = "api_dcf"
    /\ attempted' = attempted \cup {"dcf_performance"}
    /\ UNCHANGED <<config, runVars, conn, cursor, report_saved>>
    /\ \/ \E status_code \in HttpStatuses, t \in ResponseTimes :
             /\ Fault(status_code = 200 /\ t = 150)
             /\ IF status_code = 200 /\ ~HasKey(config.thresholds, "response_time_ms")
                THEN /\ Crash("KeyError")
                     /\ UNCHANGED <<results, categories>>
                ELSE /\ categories' =
                            Attach("api", DcfProbe(results, status_code, t,
                                                   config.thresholds))
                     /\ results' = NewResults
                     /\ pc' = "sr_memory"
                     /\ UNCHANGED <<exit_code, uncaught>>
       \/ \E exc \in HttpRaises :
             /\ Fault(FALSE)
             /\ IF Catches("RequestException", exc.type)
                THEN /\ categories' =
                            Attach("api", RequestHandler(results, "dcf_endpoint",
                                                         "DCF endpoint error: ", exc))
                     /\ results' = NewResults
                     /\ pc' = "sr_memory"
                     /\ UNCHANGED <<exit_code, uncaught>>
                ELSE /\ Crash(exc.type)
                     /\ UNCHANGED <<results, categories>>

(***************************************************************************)
(* assess_system_resources: pgrep and ps, df, uptime, each try block with  *)
(* a handler for Exception.                                                *)
(***************************************************************************)
MemoryOutcomes ==
    { [kind |-> "not_running"], [kind |-> "no_rss"] }
        \cup { [kind |-> "rss", memory_kb |-> k] : k \in MemoryKbs }
        \cup { [kind |-> "raise", exc |-> e] : e \in OsRaises \cup ParseRaises }

\* pgrep -f dcf-calculator, ps -p pid -o rss=, against
\* thresholds['memory_usage_mb']
MemoryProbe(res, out, thresholds) ==
    CASE out.kind = "not_running" ->
            AddIssue(SetDetail(res, "java_process", "NOT_RUNNING"),
                     "Application not running")
      [] out.kind = "no_rss" ->
            AddIssue(SetDetail(res, "memory_usage", "UNKNOWN"),
                     "Could not determine memory usage")
      [] out.kind = "rss" ->
            IF ~HasKey(thresholds, "memory_usage_mb")
            THEN AddIssue(SetDetail(res, "resource_check",
                                    "ERROR: 'memory_usage_mb'"),
                          "Resource check error: 'memory_usage_mb'")
            ELSE IF out.memory_kb \div 1024 < thresholds["memory_usage_mb"]
                 THEN Award(SetDetail(res, "memory_usage",
                                      IntToStr(out.memory_kb \div 1024) \o "MB"), 40)
                 ELSE AddIssue(SetDetail(res, "memory_usage",
                                         IntToStr(out.memory_kb \div 1024)
                                             \o "MB (HIGH)"),
                               "High memory usage: "
                                   \o IntToStr(out.memory_kb \div 1024) \o "MB")
      [] out.kind = "raise" ->
            AddIssue(SetDetail(res, "resource_check", "ERROR: " \o out.exc.msg),
                     "Resource check error: " \o out.exc.msg)

DiskOutcomes ==
    { [kind |-> "exit", returncode |-> 1, lines |-> 0, usage |-> 0],
      [kind |-> "exit", returncode |-> 0, lines |-> 1, usage |-> 0] }
        \cup { [kind |-> "exit", returncode |-> 0, lines |-> 2, usage |-> u] :
                  u \in UsagePercents }
        \cup { [kind |-> "raise", exc |-> e] : e \in OsRaises \cup ParseRaises }

\* the text of the 'available' column of df -h
Available == "50G"

\* df -h . : nothing is recorded on a non-zero exit status or on an output
\* of a single line
DiskProbe(res, out) ==
    IF out.kind = "raise"
    THEN AddIssue(SetDetail(res, "disk_check", "ERROR: " \o out.exc.msg),
                  "Disk space check error: " \o out.exc.msg)
    ELSE IF out.returncode = 0 /\ out.lines > 1
         THEN IF out.usage < 90
              THEN Award(SetDetail(res, "disk_space",
                                   Available \o " available ("
                                       \o IntToStr(out.usage) \o "% used)"), 30)
              ELSE AddIssue(SetDetail(res, "disk_space",
                                      Available \o " available ("
                                          \o IntToStr(out.usage) \o "% used) - LOW"),
                            "Low disk space: " \o IntToStr(out.usage) \o "% used")
         ELSE res

LoadOutcomes ==
    { [kind |-> "exit", returncode |-> 0], [kind |-> "exit", returncode |-> 1] }
        \cup { [kind |-> "raise", exc |-> e] : e \in OsRaises }

\* the text uptime prints
UptimeText == "10:00 up 1 day, load average: 0.10, 0.20, 0.30"

\* uptime: a non-zero exit status records nothing, an exception records a
\* detail and no issue
LoadProbe(res, out) ==
    IF out.kind = "raise"
    THEN SetDetail(res, "load_check", "ERROR: " \o out.exc.msg)
    ELSE IF out.returncode = 0
         THEN Award(SetDetail(res, "system_load", UptimeText), 30)
         ELSE res

SrMemory ==
    /\ pc = "sr_memory"
    /\ \/ \E out \in MemoryOutcomes :
             /\ Fault(out.kind = "rss" /\ out.memory_kb = 524288)
             /\ results' = MemoryProbe(results, out, config.thresholds)
             /\ pc' = "sr_disk"
       \/ /\ NeverReturns("sr_blocked")
          /\ UNCHANGED results
    /\ attempted' = attempted \cup {"memory_usage"}
    /\ UNCHANGED <<config, categories, runVars, conn, cursor, report_saved,
                   exit_code, uncaught>>

SrDisk ==
    /\ pc = "sr_disk"
    /\ \/ \E out \in DiskOutcomes :
             /\ Fault(/\ out.kind = "exit" /\ out.returncode = 0
                      /\ out.lines > 1 /\ out.usage < 90)
             /\ results' = DiskProbe(results, out)
             /\ pc' = "sr_load"
       \/ /\ NeverReturns("sr_blocked")
          /\ UNCHANGED results
    /\ attempted' = attempted \cup {"disk_space"}
    /\ UNCHANGED <<config, categories, runVars, conn, cursor, report_saved,
                   exit_code, uncaught>>

\* the last probe and 'return results'
SrLoad ==
    /\ pc = "sr_load"
    /\ \/ \E out \in LoadOutcomes :
             /\ Fault(Succeeded(out))
             /\ categories' = Attach("system_resources", LoadProbe(results, out))
             /\ results' = NewResults
             /\ pc' = "finalize"
       \/ /\ NeverReturns("sr_blocked")
          /\ UNCHANGED <<results, categories>>
    /\ attempted' = attempted \cup {"system_load"}
    /\ UNCHANGED <<config, runVars, conn, cursor, report_saved, exit_code,
                   uncaught>>

(***************************************************************************)
(* run_assessment after the four assessors: score, issue classification,   *)
(* status; generate_recommendations.                                       *)
(***************************************************************************)
\* sum(cat['score'] for cat in categories.values())
RECURSIVE SumScores(_)
SumScores(cats) ==
    IF cats = <<>> THEN 0 ELSE Head(cats).result.score + SumScores(Tail(cats))

\* sum(cat['max_score'] for cat in categories.values())
RECURSIVE SumMaxScores(_)
SumMaxScores(cats) ==
    IF cats = <<>> THEN 0 ELSE Head(cats).result.max_score + SumMaxScores(Tail(cats))

\* (total_score / max_total_score) * 100 if max_total_score > 0 else 0
ReadinessScore(total_score, max_total_score) ==
    IF max_total_score > 0
    THEN FMulInt(FDiv(total_score, max_total_score), 100)
    ELSE FZero

\* the issues of all categories, in the order the two nested loops visit them
RECURSIVE AllIssues(_)
AllIssues(cats) ==
    IF cats = <<>> THEN <<>> ELSE Head(cats).result.issues \o AllIssues(Tail(cats))

\* a keyword list that matches on the stem "fail"
KeywordsStem == <<"critical", "fail", "error", "not found">>

Keywords == <<"critical", "failed", "error", "not found">>

\* any(keyword in lowered for keyword in [...]), lowered being issue.lower()
AnyKeyword(lowered) ==
    \E i \in 1..Len(Keywords) : Contains(lowered, Keywords[i])

HasKeyword(issue) == AnyKeyword(Lower(issue))

\* the body of the inner loop: one issue goes to one of the two lists
ClassifyIssue(lists, issue) ==
    IF HasKeyword(issue)
    THEN [lists EXCEPT !.critical = Append(@, issue)]
    ELSE [lists EXCEPT !.warnings = Append(@, issue)]

RECURSIVE ClassifyIssues(_, _)
ClassifyIssues(lists, issues) ==
    IF issues = <<>> THEN lists
    ELSE ClassifyIssues(ClassifyIssue(lists, Head(issues)), Tail(issues))

\* the numbers the score and the ratio are compared with
Float90 == FromInt(90)
Float70 == FromInt(70)
Float09 == FDiv(9, 10)
Float07 == FDiv(7, 10)

\* a status policy whose READY tier looks at the score only
DetermineStatusScoreOnly(score, critical) ==
    IF FGe(score, Float90) THEN "READY"
    ELSE IF FGe(score, Float70) /\ Len(critical) <= 2
         THEN "READY_WITH_WARNINGS"
         ELSE "NOT_READY"

\* the if / elif / else on the score and the critical issues
DetermineStatus(score, critical) ==
    IF FGe(score, Float90) /\ Len(critical) = 0 THEN "READY"
    ELSE IF FGe(score, Float70) /\ Len(critical) <= 2
         THEN "READY_WITH_WARNINGS"
         ELSE "NOT_READY"

\* the texts of generate_recommendations (without their leading symbol)
ReadyOpening == "System is ready for deployment"
CautionOpening == "System has minor issues but may proceed with caution"
NotReadyOpening == "System is not ready for deployment"

\* the opening and its follow-ups, chosen on total_score / max_total_score
\* against the literals 0.9 and 0.7
TierRecommendations(ratio) ==
    IF FGe(ratio, Float09)
    THEN <<ReadyOpening, "Proceed with deployment checklist">>
    ELSE IF FGe(ratio, Float07)
         THEN <<CautionOpening, "Address warnings before deployment",
                "Ensure rollback procedures are ready">>
         ELSE <<NotReadyOpening, "Address critical issues before proceeding",
                "Re-run assessment after fixes">>

\* any(word in issue.lower() for issue in all_issues), on the lowered issues
AnyIssue(lowered, word) ==
    \E i \in 1..Len(lowered) : Contains(lowered[i], word)

LowerAll(issues) == [i \in 1..Len(issues) |-> Lower(issues[i])]

\* the four keyword triggers over all issues
TriggerRecommendations(issues) ==
    (IF AnyIssue(issues, "test")
     THEN <<"Fix failing tests before deployment">> ELSE <<>>)
    \o (IF AnyIssue(issues, "performance") \/ AnyIssue(issues, "slow")
        THEN <<"Optimize performance before deployment",
               "Consider load testing with BigDecimal operations">> ELSE <<>>)
    \o (IF AnyIssue(issues, "memory")
        THEN <<"Monitor memory usage closely during deployment",
               "Consider increasing JVM heap size">> ELSE <<>>)
    \o (IF AnyIssue(issues, "database")
        THEN <<"Verify database migration scripts",
               "Ensure database backup is current">> ELSE <<>>)

IssueRecommendations(issues) == TriggerRecommendations(LowerAll(issues))

\* generate_recommendations: the division is not guarded, so it raises
\* ZeroDivisionError when the maxima sum to zero
GenerateRecommendations(cats) ==
    IF SumMaxScores(cats) = 0
    THEN [raised |-> "ZeroDivisionError", value |-> <<>>]
    ELSE [raised |-> "none",
          value  |-> TierRecommendations(FDiv(SumScores(cats), SumMaxScores(cats)))
                         \o IssueRecommendations(AllIssues(cats))]

\* run_assessment from the score to 'return self.results'
Finalize ==
    /\ pc = "finalize"
    /\ readiness_score' = ReadinessScore(SumScores(categories), SumMaxScores(categories))
    /\ LET lists == ClassifyIssues([critical |-> critical_issues,
                                    warnings |-> warnings],
                                   AllIssues(categories))
       IN /\ critical_issues' = lists.critical
          /\ warnings' = lists.warnings
    /\ overall_status' = DetermineStatus(readiness_score', critical_issues')
    /\ LET generated == GenerateRecommendations(categories)
       IN IF generated.raised = "none"
          THEN /\ recommendations' = generated.value
               /\ pc' = "save_report"
               /\ UNCHANGED <<exit_code, uncaught>>
          ELSE /\ Crash(generated.raised)
               /\ UNCHANGED recommendations
    /\ UNCHANGED <<config, results, categories, conn, cursor, report_saved,
                   attempted, faults>>

\* generate_recommendations called on the assessment as constructed, before
\* any category has been assessed: the exception goes to the caller
GenerateRecommendationsCall ==
    /\ pc = "start"
    /\ LET generated == GenerateRecommendations(categories)
       IN IF generated.raised = "none"
          THEN /\ recommendations' = generated.value
               /\ pc' = "returned"
               /\ UNCHANGED uncaught
          ELSE /\ pc' = "raised"
               /\ uncaught' = generated.raised
               /\ UNCHANGED recommendations
    /\ UNCHANGED <<config, results, categories, readiness_score, overall_status,
                   critical_issues, warnings, conn, cursor, report_saved,
                   exit_code, attempted, faults>>

(***************************************************************************)
(* main after run_assessment: save_report, the summary, sys.exit.          *)
(***************************************************************************)
SaveReport ==
    /\ pc = "save_report"
    /\ report_saved' = TRUE
    /\ pc' = "summary"
    /\ UNCHANGED <<config, results, categories, runVars, conn, cursor,
                   exit_code, uncaught, attempted, faults>>

\* sys.exit(0), sys.exit(1) or sys.exit(2)
ExitCodeOf(status) ==
    IF status = "READY" THEN 0
    ELSE IF status = "READY_WITH_WARNINGS" THEN 1 ELSE 2

ExitProcess ==
    /\ pc = "summary"
    /\ exit_code' = ExitCodeOf(overall_status)
    /\ pc' = "exited"
    /\ UNCHANGED <<config, results, categories, runVars, conn, cursor,
                   report_saved, uncaught, attempted, faults>>

Next ==
    \/ StartAssessment
    \/ CqBackendTests
    \/ CqCoverage
    \/ CqStaticAnalysis
    \/ CqSecurityScan
    \/ DbConnect
    \/ DbCursor
    \/ DbConnectivity
    \/ DbSchema
    \/ DbDataIntegrity
    \/ DbQueryPerformance
    \/ DbFinally
    \/ ApiHealth
    \/ ApiFinancialData
    \/ ApiDcfCalculation
    \/ SrMemory
    \/ SrDisk
    \/ SrLoad
    \/ Finalize
    \/ GenerateRecommendationsCall
    \/ SaveReport
    \/ ExitProcess

Spec == Init /\ [][Next]_vars

\* the interpreter runs the statements of main one after the other: a step
\* that can be taken is taken
LiveSpec == Init /\ [][Next]_vars /\ WF_vars(Next)

(***************************************************************************)
(* Properties.                                                             *)
(***************************************************************************)
\* run_assessment has returned to main and nothing has happened since
AfterRun == pc = "save_report"

Float95 == FromInt(95)
Float100 == FromInt(100)

Range(seq) == {seq[i] : i \in 1..Len(seq)}

\* C1: the status is READY exactly when the score is at least 90 and there
\* is no critical issue, otherwise READY_WITH_WARNINGS exactly when the score
\* is at least 70 and there are at most two critical issues, otherwise
\* NOT_READY; no run with a critical issue is READY.
C1_StatusPolicy ==
    AfterRun =>
        LET ready   == FGe(readiness_score, Float90) /\ Len(critical_issues) = 0
            caution == FGe(readiness_score, Float70) /\ Len(critical_issues) <= 2
        IN /\ (overall_status = "READY") <=> ready
           /\ (overall_status = "READY_WITH_WARNINGS") <=> (~ready /\ caution)
           /\ (overall_status = "NOT_READY") <=> (~ready /\ ~caution)
           /\ Len(critical_issues) >= 1 => overall_status # "READY"

\* a run of score 95.0 with one critical issue, READY_WITH_WARNINGS
C1_Witness ==
    /\ AfterRun
    /\ readiness_score = Float95
    /\ Len(critical_issues) = 1
    /\ overall_status = "READY_WITH_WARNINGS"

\* C2: a failure of a probe never prevents a later probe from being
\* attempted: when the Database assessor has returned its four probes have
\* been attempted, and when the process has ended every probe of the four
\* assessors has been attempted.
C2_ProbeIsolation ==
    /\ pc = "api_health" => DatabaseProbes \subseteq attempted
    /\ pc = "exited" => attempted = AllProbes

\* C3: whatever the probes answer, the process ends at the sys.exit of main
\* with status 0 for READY, 1 for READY_WITH_WARNINGS, 2 for NOT_READY, and
\* never by an uncaught exception.
C3_ExitsWithStatusCode ==
    pc = "exited" =>
        /\ uncaught = "none"
        /\ exit_code \in {0, 1, 2}
        /\ exit_code = ExitCodeOf(overall_status)
        /\ overall_status \in {"READY", "READY_WITH_WARNINGS", "NOT_READY"}

\* C4: in every state each category result, attached or being built, has
\* 0 <= score <= max_score and max_score = 100.
C4_ScoreWithinMaximum ==
    /\ 0 <= results.score /\ results.score <= results.max_score
    /\ results.max_score = 100
    /\ \A i \in 1..Len(categories) :
          /\ 0 <= categories[i].result.score
          /\ categories[i].result.score <= categories[i].result.max_score
          /\ categories[i].result.max_score = 100

\* the four assessors have returned and each scored its maximum
C4_Witness ==
    /\ pc = "finalize"
    /\ Len(categories) = 4
    /\ \A i \in 1..4 : categories[i].result.score = 100

\* C5: after run_assessment readiness_score equals
\* 100 * (sum of scores) / (sum of maxima), lies in [0, 100], is 100 exactly
\* when every category scored its maximum and 0 exactly when every category
\* scored 0.
C5_ExactPercentage ==
    AfterRun =>
        /\ readiness_score = FDiv(100 * SumScores(categories), SumMaxScores(categories))
        /\ FGe(readiness_score, FZero) /\ FGe(Float100, readiness_score)
        /\ (readiness_score = Float100)
              <=> \A i \in 1..Len(categories) :
                     categories[i].result.score = categories[i].result.max_score
        /\ (readiness_score = FZero)
              <=> \A i \in 1..Len(categories) : categories[i].result.score = 0

\* C6: when the maxima sum to zero, the score aggregation, the issue
\* classification, the status and the recommendation generation complete and
\* no division error reaches the caller.
C6_ZeroMaximaRecovered ==
    SumMaxScores(categories) = 0 =>
        /\ uncaught # "ZeroDivisionError"
        /\ pc # "raised"

\* the lower-cased text contains one of the four substrings
C7_IsCritical(issue) ==
    \/ Contains(Lower(issue), "critical")
    \/ Contains(Lower(issue), "failed")
    \/ Contains(Lower(issue), "error")
    \/ Contains(Lower(issue), "not found")

C7_IsWarning(issue) == ~C7_IsCritical(issue)

\* C7: after run_assessment every issue of every category is in exactly one
\* of critical_issues and warnings, in the order of emission, and it is in
\* critical_issues exactly when its lower-cased text contains "critical",
\* "failed", "error" or "not found"; "Backend tests failing" is a warning.
C7_IssuePartition ==
    AfterRun =>
        /\ Len(critical_issues) + Len(warnings) = Len(AllIssues(categories))
        /\ critical_issues = SelectSeq(AllIssues(categories), C7_IsCritical)
        /\ warnings = SelectSeq(AllIssues(categories), C7_IsWarning)
        /\ Range(critical_issues) \cap Range(warnings) = {}
        /\ "Backend tests failing" \notin Range(critical_issues)
        /\ "Backend tests failing" \in Range(AllIssues(categories))
              => "Backend tests failing" \in Range(warnings)

\* a run with the failing backend tests among its warnings and a critical
\* issue beside it
C7_Witness ==
    /\ AfterRun
    /\ "Backend tests failing" \in Range(warnings)
    /\ Len(critical_issues) >= 1

\* the opening and the follow-ups of a status tier
C8_TierTexts(status) ==
    IF status = "READY"
    THEN <<ReadyOpening, "Proceed with deployment checklist">>
    ELSE IF status = "READY_WITH_WARNINGS"
         THEN <<CautionOpening, "Address warnings before deployment",
                "Ensure rollback procedures are ready">>
         ELSE <<NotReadyOpening, "Address critical issues before proceeding",
                "Re-run assessment after fixes">>

\* C8: the opening recommendation and its follow-ups are those of the overall
\* status that run_assessment assigned.
C8_OpeningFollowsStatus ==
    AfterRun =>
        /\ Len(recommendations) >= Len(C8_TierTexts(overall_status))
        /\ SubSeq(recommendations, 1, Len(C8_TierTexts(overall_status)))
              = C8_TierTexts(overall_status)
        /\ (recommendations[1] = ReadyOpening) <=> (overall_status = "READY")
        /\ (recommendations[1] = CautionOpening)
              <=> (overall_status = "READY_WITH_WARNINGS")
        /\ (recommendations[1] = NotReadyOpening) <=> (overall_status = "NOT_READY")

ProbesOf(name) ==
    CASE name = "code_quality" -> CodeQualityProbes
      [] name = "database" -> DatabaseProbes
      [] name = "api" -> ApiProbes
      [] name = "system_resources" -> SystemProbes

\* C9: every probe writes exactly one entry into the details of its
\* category, under the same key on success and on failure: the details of a
\* returned category hold one entry per probe (4, 4, 4, 3).
C9_OneDetailPerProbe ==
    \A i \in 1..Len(categories) :
        /\ DOMAIN categories[i].result.details = ProbesOf(categories[i].name)
        /\ Cardinality(DOMAIN categories[i].result.details)
              = Cardinality(ProbesOf(categories[i].name))

\* the points of each probe
ProbePoints ==
    [backend_tests |-> 30, test_coverage |-> 20, static_analysis |-> 25,
     security_scan |-> 25, connectivity |-> 20, bigdecimal_columns |-> 30,
     data_integrity |-> 25, query_performance |-> 25, health_check |-> 25,
     serialization |-> 25, decimal_format |-> 25, dcf_performance |-> 25,
     memory_usage |-> 40, disk_space |-> 30, system_load |-> 30]

RECURSIVE SumPoints(_)
SumPoints(probes) ==
    IF probes = {} THEN 0
    ELSE LET one == CHOOSE x \in probes : TRUE
         IN ProbePoints[one] + SumPoints(probes \ {one})

\* C10: every probe awards its full points and records no issue, or awards
\* nothing and records exactly one issue: in a returned category the issues
\* are as many as the probes that did not award their points, and a category
\* below its maximum has at least one issue.
C10_OneIssuePerFailedProbe ==
    \A i \in 1..Len(categories) :
        /\ \E awarded \in SUBSET ProbesOf(categories[i].name) :
              /\ SumPoints(awarded) = categories[i].result.score
              /\ Len(categories[i].result.issues)
                    = Cardinality(ProbesOf(categories[i].name) \ awarded)
        /\ categories[i].result.score < categories[i].result.max_score
              => Len(categories[i].result.issues) >= 1

\* the positions of the run before and inside assess_database_readiness
BeforeDatabase ==
    {"start", "returned", "raised", "cq_backend", "cq_coverage", "cq_static",
     "cq_security"}

InsideDatabase ==
    {"db_connect", "db_cursor", "db_select1", "db_schema", "db_counts",
     "db_perf", "db_finally", "db_blocked"}

\* assess_database_readiness has ended, by its return or by an exception
DatabaseEnded == pc \notin BeforeDatabase \cup InsideDatabase

\* C11: whenever assess_database_readiness has ended, normally or after a
\* failure at any step, the connection it opened is not open any more, and
\* no exception of the cleanup (the finally clause) has left the assessor.
C11_ConnectionClosedOnExit ==
    DatabaseEnded =>
        /\ conn # "connected"
        /\ conn = "closed" => cursor = "closed"
        /\ uncaught \notin {"UnboundLocalError", "InternalError"}

\* the process has ended, or the direct call of generate_recommendations has
Terminated == pc \in {"exited", "returned", "raised"}

\* C12: a run always terminates, even when an external collaborator never
\* answers: every external call is bounded by a timeout, after which the run
\* goes on with the next probe.
C12_RunTerminates == <>Terminated

\* the result of the category of that name
C13_Category(name) ==
    LET i == CHOOSE j \in 1..Len(categories) : categories[j].name = name
    IN categories[i].result

\* run_assessment has returned, the connection to the database was never
\* established and the three other categories scored 100 without an issue
C13_Scenario ==
    /\ pc \in {"save_report", "summary", "exited"}
    /\ uncaught = "none"
    /\ Len(categories) = 4
    /\ conn = "unbound"
    /\ \A name \in {"code_quality", "api", "system_resources"} :
          /\ C13_Category(name).score = 100
          /\ C13_Category(name).issues = <<>>

Float75 == FromInt(75)

\* C13: when the database connection cannot be established and the three
\* other categories score 100 with no issue, the Database category has score
\* 0 and exactly one issue, which contains "error"; the readiness score is
\* 75.0, there is exactly one critical issue and no warning, the status is
\* READY_WITH_WARNINGS and the exit code is 1.
C13_DatabaseDownScenario ==
    C13_Scenario =>
        /\ C13_Category("database").score = 0
        /\ Len(C13_Category("database").issues) = 1
        /\ Contains(Lower(C13_Category("database").issues[1]), "error")
        /\ readiness_score = Float75
        /\ critical_issues = C13_Category("database").issues
        /\ Len(critical_issues) = 1
        /\ warnings = <<>>
        /\ overall_status = "READY_WITH_WARNINGS"
        /\ pc = "exited" => exit_code = 1

\* the scenario at the end of the process
C13_Witness ==
    /\ C13_Scenario
    /\ pc = "exited"
    /\ exit_code = 1
    /\ C13_Category("database").score = 0

====
